---- MODULE Spec2Model ----
(***************************************************************************)
(* Two-stage stochastic programs of the repository:                        *)
(*   q1_c.py  seat allocation: stochastic program (SP), expected-value     *)
(*            problem (EV), evaluation of the EV allocation in the SP      *)
(*            (EEV), wait-and-see (WS), and the VSS / EVPI metrics;        *)
(*   q3.py    multi-city inventory allocation with flow balance.           *)
(*                                                                         *)
(* Arithmetic is exact.  A probability p is held as the integer weight     *)
(* p * Denom, and every objective value of q1_c.py is held multiplied by   *)
(* Denom; the capacity row x_e + 1.5 x_b + 2 x_f <= C is held multiplied   *)
(* by 2.  The solver is the environment: on a model it                     *)
(* returns a status and, when the status is OPTIMAL, any one optimal       *)
(* solution of the model.                                                  *)
(***************************************************************************)
EXTENDS Integers, Sequences, FiniteSets, TLC

VARIABLES
    scenarios,        \* q1_c.py: list of scenario rows
    total_capacity,   \* q1_c.py: train capacity
    pc,               \* position of the running script
    sp_solution,      \* __main__ locals of q1_c.py
    ev_solution,
    eev_solution,
    ws_solution,
    vss,
    evpi,
    s_idx,            \* loop index of solve_wait_and_see_problem
    expected_profit,  \* accumulator of solve_wait_and_see_problem
    output,           \* lines printed so far
    solves,           \* history: every model.optimize() call, in order
    Data,             \* q3.py: the values loaded from the data module
    q3                \* q3.py: solver status and solution of the model

vars == <<scenarios, total_capacity, pc, sp_solution, ev_solution, eev_solution,
          ws_solution, vss, evpi, s_idx, expected_profit, output, solves, Data, q3>>

q3vars == <<Data, q3>>

----------------------------------------------------------------------------
(* Bounds of the model *)

MaxScen == 2
MaxDemand == 1
MaxCap == 2
Denom == 2
MaxQty == 1

(* Profit coefficients of q1_c.py *)
economy_profit == 1
business_profit == 2
first_profit == 3

----------------------------------------------------------------------------
(* Python values *)

None == [tag |-> "None"]
Num(n) == [tag |-> "num", v |-> n]

\* Truth value of an object in an `if`: None and the number 0 are false,
\* a non-empty dict is true.
Truthy(val) ==
    CASE val.tag = "None" -> FALSE
      [] val.tag = "num"  -> val.v # 0
      [] val.tag = "dict" -> TRUE

Line(label, value) == [label |-> label, value |-> value]
Text(label) == Line(label, None)

Max(S) == CHOOSE m \in S : \A n \in S : n <= m
Min(S) == CHOOSE m \in S : \A n \in S : m <= n

RECURSIVE SumTo(_, _)
SumTo(f, n) == IF n = 0 THEN 0 ELSE f[n] + SumTo(f, n - 1)

----------------------------------------------------------------------------
(* The solver *)

\* model.status after model.optimize(): an infeasible model is reported
\* INFEASIBLE, a feasible bounded one OPTIMAL; any solve may instead end in a
\* numerical failure.
StatusOf(feasible) ==
    IF feasible = {} THEN {"INFEASIBLE", "NUMERIC"} ELSE {"OPTIMAL", "NUMERIC"}

NonOptimalStatuses == {"INFEASIBLE", "NUMERIC"}

\* The optimal solutions of a maximisation, given every feasible solution with
\* its objective value.
ArgMax(valued) ==
    LET best == Max({p.obj : p \in valued})
    IN  {p.sol : p \in {q \in valued : q.obj = best}}

\* `if model.status == GRB.OPTIMAL: return solution else: return None`
ExtractResult(status, solution) ==
    IF status = "OPTIMAL" THEN solution ELSE None

----------------------------------------------------------------------------
(* Model building blocks of q1_c.py *)

\* Integer variables with the solver's default lower bound 0.  The capacity
\* row bounds every x by the capacity, the demand rows bound every y.
XVars == [x_e : 0..MaxCap, x_b : 0..MaxCap, x_f : 0..MaxCap]
YVars == [y_e : 0..MaxDemand, y_b : 0..MaxDemand, y_f : 0..MaxDemand]

\* x_e + 1.5 * x_b + 2 * x_f <= total_capacity
CapacityRow(x, cap) == 2 * x.x_e + 3 * x.x_b + 4 * x.x_f <= 2 * cap

\* economy_profit * y_e + business_profit * y_b + first_profit * y_f
SalesProfit(y) ==
    economy_profit * y.y_e + business_profit * y.y_b + first_profit * y.y_f

\* x_e * economy_profit + x_b * business_profit + x_f * first_profit
SeatProfit(x) ==
    x.x_e * economy_profit + x.x_b * business_profit + x.x_f * first_profit

\* sum over the scenarios of probability * sales profit
ExpectedSales(scen, ys) ==
    SumTo([s \in 1..Len(scen) |-> scen[s].probability * SalesProfit(ys[s])], Len(scen))

----------------------------------------------------------------------------
(* solve_stochastic_program *)

\* Second-stage rows of one scenario: sales <= demand, sales <= allocated seats.
SPRecourse(scenario, x) ==
    {y \in YVars :
        /\ y.y_e <= scenario.economy_class
        /\ y.y_b <= scenario.business_class
        /\ y.y_f <= scenario.first_class
        /\ y.y_e <= x.x_e
        /\ y.y_b <= x.x_b
        /\ y.y_f <= x.x_f}

RECURSIVE SPRecourses(_, _, _)
SPRecourses(scen, x, n) ==
    IF n = 0 THEN {<<>>}
    ELSE {Append(ys, y) : ys \in SPRecourses(scen, x, n - 1), y \in SPRecourse(scen[n], x)}

\* Variant of SPFirstStage that leaves the capacity row out.
SPFirstStageNoCapacity(cap) == {x \in XVars : cap >= 0}

SPFirstStage(cap) == {x \in XVars : CapacityRow(x, cap)}

\* Feasible set of the extensive form.
SPFeasible(scen, cap) ==
    UNION {{[x |-> x, y |-> ys] : ys \in SPRecourses(scen, x, Len(scen))} :
           x \in SPFirstStage(cap)}

\* What solve_stochastic_program can return, with the solver status behind it.
solve_stochastic_program(scen, cap) ==
    LET feasible == SPFeasible(scen, cap)
        Obj(sol) == ExpectedSales(scen, sol.y)
        Solution(sol) == [tag |-> "dict", x_e |-> sol.x.x_e, x_b |-> sol.x.x_b,
                          x_f |-> sol.x.x_f, objective_value |-> Obj(sol)]
    IN  {[status |-> st, value |-> ExtractResult(st, None)] :
            st \in StatusOf(feasible) \ {"OPTIMAL"}}
        \cup
        (IF feasible = {} THEN {}
         ELSE {[status |-> "OPTIMAL", value |-> ExtractResult("OPTIMAL", Solution(sol))] :
                 sol \in ArgMax({[sol |-> f, obj |-> Obj(f)] : f \in feasible})})

----------------------------------------------------------------------------
(* solve_expected_value_problem *)

\* Denom * expected demand of a class: sum of probability * demand.
ExpectedDemand(scen, class) ==
    SumTo([s \in 1..Len(scen) |-> scen[s].probability * scen[s][class]], Len(scen))

\* capacity row, and x <= expected demand for each class
EVFeasible(scen, cap) ==
    {x \in XVars :
        /\ CapacityRow(x, cap)
        /\ Denom * x.x_e <= ExpectedDemand(scen, "economy_class")
        /\ Denom * x.x_b <= ExpectedDemand(scen, "business_class")
        /\ Denom * x.x_f <= ExpectedDemand(scen, "first_class")}

solve_expected_value_problem(scen, cap) ==
    LET feasible == EVFeasible(scen, cap)
        Obj(x) == Denom * SeatProfit(x)
        Solution(x) == [tag |-> "dict", x_e |-> x.x_e, x_b |-> x.x_b, x_f |-> x.x_f,
                        objective_value |-> Obj(x)]
    IN  {[status |-> st, value |-> ExtractResult(st, None)] :
            st \in StatusOf(feasible) \ {"OPTIMAL"}}
        \cup
        (IF feasible = {} THEN {}
         ELSE {[status |-> "OPTIMAL", value |-> ExtractResult("OPTIMAL", Solution(x))] :
                 x \in ArgMax({[sol |-> f, obj |-> Obj(f)] : f \in feasible})})

----------------------------------------------------------------------------
(* evaluate_ev_in_sp *)

\* Variant of EEVRecourse that leaves the allocation rows out.
EEVRecourseNoAllocation(scenario, ev) ==
    {y \in YVars :
        /\ y.y_e <= scenario.economy_class
        /\ y.y_b <= scenario.business_class
        /\ y.y_f <= scenario.first_class}

\* Variant of EEVRecourse that leaves the demand rows out.
EEVRecourseNoDemand(scenario, ev) ==
    {y \in YVars :
        /\ y.y_e <= ev.x_e
        /\ y.y_b <= ev.x_b
        /\ y.y_f <= ev.x_f}

\* Rows of one scenario: sales <= demand, sales <= the fixed EV allocation.
EEVRecourse(scenario, ev) ==
    {y \in YVars :
        /\ y.y_e <= scenario.economy_class
        /\ y.y_b <= scenario.business_class
        /\ y.y_f <= scenario.first_class
        /\ y.y_e <= ev.x_e
        /\ y.y_b <= ev.x_b
        /\ y.y_f <= ev.x_f}

RECURSIVE EEVRecourses(_, _, _)
EEVRecourses(scen, ev, n) ==
    IF n = 0 THEN {<<>>}
    ELSE {Append(ys, y) : ys \in EEVRecourses(scen, ev, n - 1), y \in EEVRecourse(scen[n], ev)}

EEVFeasible(scen, ev) == EEVRecourses(scen, ev, Len(scen))

evaluate_ev_in_sp(scen, ev) ==
    LET feasible == EEVFeasible(scen, ev)
        Obj(ys) == ExpectedSales(scen, ys)
        Solution(ys) == [tag |-> "dict", objective_value |-> Obj(ys)]
    IN  {[status |-> st, value |-> ExtractResult(st, None)] :
            st \in StatusOf(feasible) \ {"OPTIMAL"}}
        \cup
        (IF feasible = {} THEN {}
         ELSE {[status |-> "OPTIMAL", value |-> ExtractResult("OPTIMAL", Solution(ys))] :
                 ys \in ArgMax({[sol |-> f, obj |-> Obj(f)] : f \in feasible})})

----------------------------------------------------------------------------
(* solve_wait_and_see_problem: the model of one scenario *)

\* Variant of WSFeasible that leaves the capacity row out.
WSFeasibleNoCapacity(scenario, cap) ==
    {x \in XVars :
        /\ cap >= 0
        /\ x.x_e <= scenario.economy_class
        /\ x.x_b <= scenario.business_class
        /\ x.x_f <= scenario.first_class}

\* capacity row, and x <= the scenario's demand for each class
WSFeasible(scenario, cap) ==
    {x \in XVars :
        /\ CapacityRow(x, cap)
        /\ x.x_e <= scenario.economy_class
        /\ x.x_b <= scenario.business_class
        /\ x.x_f <= scenario.first_class}

\* Status and model.objVal of the scenario's model.
WaitAndSeeModel(scenario, cap) ==
    LET feasible == WSFeasible(scenario, cap)
    IN  {[status |-> st, objVal |-> 0] : st \in StatusOf(feasible) \ {"OPTIMAL"}}
        \cup
        (IF feasible = {} THEN {}
         ELSE {[status |-> "OPTIMAL", objVal |-> Max({SeatProfit(x) : x \in feasible})]})

----------------------------------------------------------------------------
(* __main__ of q1_c.py *)

Solve(problem, idx, status, arg, result) ==
    [problem |-> problem, idx |-> idx, status |-> status, arg |-> arg, result |-> result]

\* sp_solution = solve_stochastic_program(); if sp_solution: ... else: print(...)
SolveSP ==
    /\ pc = "sp"
    /\ \E r \in solve_stochastic_program(scenarios, total_capacity) :
          /\ sp_solution' = r.value
          /\ solves' = Append(solves, Solve("SP", 0, r.status, None, r.value))
          /\ IF Truthy(r.value)
             THEN pc' = "ev" /\ output' = output
             ELSE /\ pc' = "done"
                  /\ output' = Append(output, Text("Could not solve Stochastic Program"))
    /\ UNCHANGED <<scenarios, total_capacity, ev_solution, eev_solution, ws_solution,
                   vss, evpi, s_idx, expected_profit>>
    /\ UNCHANGED q3vars

\* ev_solution = solve_expected_value_problem(); if ev_solution: ... else: print(...)
SolveEV ==
    /\ pc = "ev"
    /\ \E r \in solve_expected_value_problem(scenarios, total_capacity) :
          /\ ev_solution' = r.value
          /\ solves' = Append(solves, Solve("EV", 0, r.status, None, r.value))
          /\ IF Truthy(r.value)
             THEN pc' = "eev" /\ output' = output
             ELSE /\ pc' = "done"
                  /\ output' = Append(output, Text("Could not solve Expected Value Problem"))
    /\ UNCHANGED <<scenarios, total_capacity, sp_solution, eev_solution, ws_solution,
                   vss, evpi, s_idx, expected_profit>>
    /\ UNCHANGED q3vars

\* eev_solution = evaluate_ev_in_sp(ev_solution); if eev_solution: vss = ...;
\* then solve_wait_and_see_problem() is entered with expected_profit = 0
EvaluateEV ==
    /\ pc = "eev"
    /\ \E r \in evaluate_ev_in_sp(scenarios, ev_solution) :
          /\ eev_solution' = r.value
          /\ solves' = Append(solves, Solve("EEV", 0, r.status, ev_solution, r.value))
          /\ IF Truthy(r.value)
             THEN /\ vss' = Num(sp_solution.objective_value - r.value.objective_value)
                  /\ pc' = "ws"
                  /\ s_idx' = 0
                  /\ expected_profit' = 0
                  /\ output' = output
             ELSE /\ pc' = "done"
                  /\ output' = Append(output, Text("Could not evaluate EV in SP"))
                  /\ UNCHANGED <<vss, s_idx, expected_profit>>
    /\ UNCHANGED <<scenarios, total_capacity, sp_solution, ev_solution, ws_solution, evpi>>
    /\ UNCHANGED q3vars

\* ws_solution = <returned value>; if ws_solution: evpi = ...; print the
\* results; else: print("Could not solve Wait-and-See Problem")
MainAfterWS(returned) ==
    /\ ws_solution' = returned
    /\ pc' = "done"
    /\ IF Truthy(returned)
       THEN /\ evpi' = Num(returned.v - sp_solution.objective_value)
            /\ output' = output \o
                 << Text("Optimal Solution:"),
                    Line("Economy seats", Num(sp_solution.x_e)),
                    Line("Business seats", Num(sp_solution.x_b)),
                    Line("First-class seats", Num(sp_solution.x_f)),
                    Line("Expected Profit", Num(sp_solution.objective_value)),
                    Line("VSS", vss),
                    Line("EVPI", evpi') >>
       ELSE /\ evpi' = evpi
            /\ output' = Append(output, Text("Could not solve Wait-and-See Problem"))

\* Variant of WSScenario that skips a scenario whose solve is not optimal and
\* goes on with the next one.
WSScenarioContinue ==
    /\ pc = "ws"
    /\ s_idx < Len(scenarios)
    /\ \E r \in WaitAndSeeModel(scenarios[s_idx + 1], total_capacity) :
          /\ expected_profit' =
                IF r.status = "OPTIMAL"
                THEN expected_profit + scenarios[s_idx + 1].probability * r.objVal
                ELSE expected_profit
          /\ s_idx' = s_idx + 1
          /\ solves' = Append(solves, Solve("WS", s_idx, r.status, None,
                                            ExtractResult(r.status, Num(r.objVal))))
          /\ UNCHANGED <<pc, ws_solution, evpi, output>>
    /\ UNCHANGED <<scenarios, total_capacity, sp_solution, ev_solution, eev_solution, vss>>
    /\ UNCHANGED q3vars

\* Variant of WSScenario that leaves the loop at a scenario whose solve is not
\* optimal and returns the sum accumulated so far.
WSScenarioBreak ==
    /\ pc = "ws"
    /\ s_idx < Len(scenarios)
    /\ \E r \in WaitAndSeeModel(scenarios[s_idx + 1], total_capacity) :
          IF r.status = "OPTIMAL"
          THEN /\ expected_profit' =
                     expected_profit + scenarios[s_idx + 1].probability * r.objVal
               /\ s_idx' = s_idx + 1
               /\ solves' = Append(solves, Solve("WS", s_idx, r.status, None, Num(r.objVal)))
               /\ UNCHANGED <<pc, ws_solution, evpi, output>>
          ELSE /\ solves' = Append(solves, Solve("WS", s_idx, r.status, None, None))
               /\ MainAfterWS(Num(expected_profit))
               /\ UNCHANGED <<s_idx, expected_profit>>
    /\ UNCHANGED <<scenarios, total_capacity, sp_solution, ev_solution, eev_solution, vss>>
    /\ UNCHANGED q3vars

\* One iteration of the loop of solve_wait_and_see_problem: build and solve
\* the scenario's model; accumulate, or return None.
WSScenario ==
    /\ pc = "ws"
    /\ s_idx < Len(scenarios)
    /\ \E r \in WaitAndSeeModel(scenarios[s_idx + 1], total_capacity) :
          IF r.status = "OPTIMAL"
          THEN /\ expected_profit' =
                     expected_profit + scenarios[s_idx + 1].probability * r.objVal
               /\ s_idx' = s_idx + 1
               /\ solves' = Append(solves, Solve("WS", s_idx, r.status, None, Num(r.objVal)))
               /\ UNCHANGED <<pc, ws_solution, evpi, output>>
          ELSE /\ solves' = Append(solves, Solve("WS", s_idx, r.status, None, None))
               /\ MainAfterWS(None)
               /\ UNCHANGED <<s_idx, expected_profit>>
    /\ UNCHANGED <<scenarios, total_capacity, sp_solution, ev_solution, eev_solution, vss>>
    /\ UNCHANGED q3vars

\* The loop is over: return expected_profit.
WSReturn ==
    /\ pc = "ws"
    /\ s_idx = Len(scenarios)
    /\ MainAfterWS(Num(expected_profit))
    /\ UNCHANGED <<scenarios, total_capacity, sp_solution, ev_solution, eev_solution,
                   vss, s_idx, expected_profit, solves>>
    /\ UNCHANGED q3vars

----------------------------------------------------------------------------
(* Data sets of q1_c.py *)

Demands == 0..MaxDemand
Capacities == -1..MaxCap

ScenarioRows ==
    [probability : 1..Denom, first_class : Demands, business_class : Demands,
     economy_class : Demands]

\* Lists of 1..MaxScen scenarios with positive probabilities whose sum is at
\* most 1.
ScenarioLists ==
    UNION {{scen \in [1..n -> ScenarioRows] :
              SumTo([s \in 1..n |-> scen[s].probability], n) <= Denom} : n \in 1..MaxScen}

ProbabilitySum(scen) == SumTo([s \in 1..Len(scen) |-> scen[s].probability], Len(scen))

Q3Idle == /\ Data = None
          /\ q3 = None

Init ==
    /\ scenarios \in ScenarioLists
    /\ total_capacity \in Capacities
    /\ pc = "sp"
    /\ sp_solution = None
    /\ ev_solution = None
    /\ eev_solution = None
    /\ ws_solution = None
    /\ vss = None
    /\ evpi = None
    /\ s_idx = 0
    /\ expected_profit = 0
    /\ output = <<>>
    /\ solves = <<>>
    /\ Q3Idle

Next == SolveSP \/ SolveEV \/ EvaluateEV \/ WSScenario \/ WSReturn

Spec == Init /\ [][Next]_vars

----------------------------------------------------------------------------
(* evaluate_ev_in_sp called on its own, with any fixed allocation *)

\* Scenario rows whose three classes share one demand level.
LevelRows ==
    {[probability |-> p, first_class |-> d, business_class |-> d, economy_class |-> d] :
        p \in 1..Denom, d \in Demands}

LevelLists ==
    UNION {{scen \in [1..n -> LevelRows] :
              SumTo([s \in 1..n |-> scen[s].probability], n) <= Denom} : n \in 1..MaxScen}

FixedAllocations ==
    {[tag |-> "dict", x_e |-> x.x_e, x_b |-> x.x_b, x_f |-> x.x_f,
      objective_value |-> Denom * SeatProfit(x)] : x \in XVars}

InitEval ==
    /\ scenarios \in LevelLists
    /\ total_capacity \in {MaxCap}
    /\ pc = "eval"
    /\ sp_solution = None
    /\ ev_solution \in FixedAllocations
    /\ eev_solution = None
    /\ ws_solution = None
    /\ vss = None
    /\ evpi = None
    /\ s_idx = 0
    /\ expected_profit = 0
    /\ output = <<>>
    /\ solves = <<>>
    /\ Q3Idle

\* eev_solution = evaluate_ev_in_sp(ev_solution)
CallEvaluate ==
    /\ pc = "eval"
    /\ \E r \in evaluate_ev_in_sp(scenarios, ev_solution) :
          /\ eev_solution' = r.value
          /\ solves' = Append(solves, Solve("EEV", 0, r.status, ev_solution, r.value))
    /\ pc' = "evaluated"
    /\ UNCHANGED <<scenarios, total_capacity, sp_solution, ev_solution, ws_solution,
                   vss, evpi, s_idx, expected_profit, output>>
    /\ UNCHANGED q3vars

NextEval == CallEvaluate

SpecEval == InitEval /\ [][NextEval]_vars

----------------------------------------------------------------------------
(* q3.py *)

\* Continuous variables with lower bound 0, taken on the integer grid up to
\* twice the largest quantity of the data.
FlowDom == 0..(2 * MaxQty)
Quantities == 0..MaxQty

\* Shapes of the data: two scenarios of one city, one scenario of two cities.
Q3Shapes == {[cities |-> {1}, scenarios |-> {1, 2}], [cities |-> {1, 2}, scenarios |-> {1}]}

\* Unit costs: transport cheaper than shortage, and shortage cheaper than
\* transport.
Q3Costs == {[theta |-> 1, theta_s |-> 1, h |-> 1, g |-> 3],
            [theta |-> 1, theta_s |-> 3, h |-> 1, g |-> 1]}

\* The values q3.py loads from the data module.
Q3DataSets ==
    UNION {UNION {
        [cities : {sh.cities}, scenarios : {sh.scenarios},
         theta : {[n \in sh.cities |-> c.theta]},
         theta_s : {[n \in sh.cities |-> c.theta_s]},
         h : {c.h}, g : {c.g},
         I : Quantities,
         Yn : [sh.cities -> Quantities],
         demand : [sh.cities \X sh.scenarios -> Quantities]] : c \in Q3Costs} : sh \in Q3Shapes}

RECURSIVE SumOver(_, _)
SumOver(f, S) ==
    IF S = {} THEN 0
    ELSE LET e == CHOOSE e \in S : TRUE IN f[e] + SumOver(f, S \ {e})

\* u, v, z, s of one city and scenario
SecondStageVars == [u : FlowDom, v : FlowDom, z : FlowDom, s : FlowDom]

\* balance_{n}_{k}: Yn[n] + x[n] + v[n,k] + s[n,k] == demand[n,k] + z[n,k] + u[n,k]
BalanceRow(D, x, n, k) ==
    {r \in SecondStageVars :
        D.Yn[n] + x[n] + r.v + r.s = D.demand[<<n, k>>] + r.z + r.u}

RECURSIVE Q3SecondStage(_, _, _)
Q3SecondStage(D, x, pairs) ==
    IF pairs = {} THEN {<<>>}
    ELSE LET p == CHOOSE p \in pairs : TRUE
         IN  {(p :> r) @@ f : f \in Q3SecondStage(D, x, pairs \ {p}),
                              r \in BalanceRow(D, x, p[1], p[2])}

\* inventory_constraint: sum of x[n] <= I
Q3FirstStage(D) == {x \in [D.cities -> FlowDom] : SumOver(x, D.cities) <= D.I}

Q3Feasible(D) ==
    UNION {{[x |-> x, r |-> f] : f \in Q3SecondStage(D, x, D.cities \X D.scenarios)} :
           x \in Q3FirstStage(D)}

\* first_stage_cost + second_stage_cost with prob = 1 / len(scenarios), held
\* multiplied by len(scenarios).
Q3Objective(D, sol) ==
    Cardinality(D.scenarios) * SumOver([n \in D.cities |-> D.theta[n] * sol.x[n]], D.cities)
    + SumOver([p \in D.cities \X D.scenarios |->
                 D.theta_s[p[1]] * (sol.r[p].u + sol.r[p].v)
                 + D.h * sol.r[p].z + D.g * sol.r[p].s],
              D.cities \X D.scenarios)

\* The optimal solutions of the minimisation.
Q3Optimal(D) ==
    LET feasible == Q3Feasible(D)
        best == Min({Q3Objective(D, sol) : sol \in feasible})
    IN  {sol \in feasible : Q3Objective(D, sol) = best}

Q1Idle ==
    /\ scenarios = <<>>
    /\ total_capacity = 0
    /\ sp_solution = None
    /\ ev_solution = None
    /\ eev_solution = None
    /\ ws_solution = None
    /\ vss = None
    /\ evpi = None
    /\ s_idx = 0
    /\ expected_profit = 0
    /\ solves = <<>>

InitQ3 ==
    /\ Q1Idle
    /\ Data \in Q3DataSets
    /\ q3 = None
    /\ output = <<>>
    /\ pc = "q3_optimize"

\* model.optimize() on the model built from Data
Q3Optimize ==
    /\ pc = "q3_optimize"
    /\ \/ \E sol \in Q3Optimal(Data) :
             q3' = [tag |-> "dict", status |-> "OPTIMAL", x |-> sol.x, r |-> sol.r,
                    objVal |-> Q3Objective(Data, sol)]
       \/ q3' = [tag |-> "dict", status |-> "NUMERIC"]
    /\ pc' = "q3_report"
    /\ UNCHANGED <<scenarios, total_capacity, sp_solution, ev_solution, eev_solution,
                   ws_solution, vss, evpi, s_idx, expected_profit, output, solves, Data>>

\* if model.status == GRB.OPTIMAL: print the solution; else: print(...)
Q3Report ==
    /\ pc = "q3_report"
    /\ IF q3.status = "OPTIMAL"
       THEN output' = << Text("Optimal First-Stage Solution:"),
                         Line("x", [tag |-> "dict", x |-> q3.x]),
                         Line("Optimal Objective Value", Num(q3.objVal)) >>
       ELSE output' = << Text("No optimal solution found.") >>
    /\ pc' = "done"
    /\ UNCHANGED <<scenarios, total_capacity, sp_solution, ev_solution, eev_solution,
                   ws_solution, vss, evpi, s_idx, expected_profit, solves, Data, q3>>

NextQ3 == Q3Optimize \/ Q3Report

SpecQ3 == InitQ3 /\ [][NextQ3]_vars

----------------------------------------------------------------------------
(* Properties *)

\* Non-negative integer demands (every data set has them), probabilities that
\* sum to 1, a non-negative capacity.
WellFormed ==
    /\ ProbabilitySum(scenarios) = Denom
    /\ total_capacity >= 0

IsDict(val) == val.tag = "dict"
IsNum(val) == val.tag = "num"

\* C1: for well-formed data, once SP, EV and EEV are solved to optimality,
\* EEV.objective <= SP.objective, and the computed VSS is >= 0.
C1_VSSNonNegative ==
    (WellFormed /\ IsDict(sp_solution) /\ IsDict(ev_solution) /\ IsDict(eev_solution))
        => /\ eev_solution.objective_value <= sp_solution.objective_value
           /\ IsNum(vss) => vss.v >= 0

\* A well-formed run in which VSS was computed and is strictly positive.
C1_Witness ==
    /\ WellFormed
    /\ IsDict(eev_solution)
    /\ IsNum(vss)
    /\ vss.v > 0

\* C2: for well-formed data, once SP and every scenario's wait-and-see problem
\* are solved to optimality, SP.objective <= WS (the probability-weighted sum
\* returned by solve_wait_and_see_problem), and the computed EVPI is >= 0.
C2_EVPINonNegative ==
    (WellFormed /\ IsDict(sp_solution) /\ IsNum(ws_solution))
        => /\ sp_solution.objective_value <= ws_solution.v
           /\ IsNum(evpi) => evpi.v >= 0

\* A well-formed run in which EVPI was computed and is strictly positive.
C2_Witness ==
    /\ WellFormed
    /\ IsNum(ws_solution)
    /\ IsNum(evpi)
    /\ evpi.v > 0

\* The i-th solve of a run: SP, EV, EEV, then the scenarios in index order.
ExpectedSolve(i) ==
    CASE i = 1 -> <<"SP", 0>>
      [] i = 2 -> <<"EV", 0>>
      [] i = 3 -> <<"EEV", 0>>
      [] OTHER -> <<"WS", i - 4>>

\* C3: the solves of a run happen in the order SP, EV, EEV (on that EV
\* result), wait-and-see scenario 0, 1, ...; a solve is started only if every
\* earlier one returned optimal; no solve is repeated.
C3_SolveOrder ==
    \A i \in 1..Len(solves) :
        /\ <<solves[i].problem, solves[i].idx>> = ExpectedSolve(i)
        /\ i < Len(solves) => solves[i].status = "OPTIMAL"
        /\ solves[i].problem = "WS" => solves[i].idx < Len(scenarios)
        /\ solves[i].problem = "EEV" =>
              /\ solves[i].arg = ev_solution
              /\ solves[i].arg = solves[i - 1].result

\* A finished run of at least two scenarios in which every solve took place.
C3_Witness ==
    /\ pc = "done"
    /\ Len(scenarios) >= 2
    /\ Len(solves) = 3 + Len(scenarios)

\* The message that names a sub-problem.
Diagnostic(problem) ==
    CASE problem = "SP"  -> "Could not solve Stochastic Program"
      [] problem = "EV"  -> "Could not solve Expected Value Problem"
      [] problem = "EEV" -> "Could not evaluate EV in SP"
      [] problem = "WS"  -> "Could not solve Wait-and-See Problem"

HasLine(label) == \E j \in 1..Len(output) : output[j].label = label

\* C4: when a solve ends non-optimal the run is over, its whole output is the
\* message naming the failed sub-problem, and no VSS or EVPI line is printed.
C4_FailureIsFatal ==
    \A i \in 1..Len(solves) :
        solves[i].status # "OPTIMAL"
            => /\ pc = "done"
               /\ output = << Text(Diagnostic(solves[i].problem)) >>
               /\ ~HasLine("VSS")
               /\ ~HasLine("EVPI")

\* The wait-and-see solve of a later scenario failed after an earlier one had
\* added a positive amount to the sum.
C4_Witness ==
    /\ Len(solves) = 5
    /\ solves[5].status # "OPTIMAL"
    /\ expected_profit > 0

\* C5 (as claimed): at an optimal solution, for every city and scenario,
\* Yn + x + u (centre to city) + s = demand + z + v (city to centre).
C5_BalanceAsDocumented ==
    (IsDict(q3) /\ q3.status = "OPTIMAL")
        => \A n \in Data.cities : \A k \in Data.scenarios :
              Data.Yn[n] + q3.x[n] + q3.r[<<n, k>>].u + q3.r[<<n, k>>].s
                  = Data.demand[<<n, k>>] + q3.r[<<n, k>>].z + q3.r[<<n, k>>].v

\* C6: for one scenario of probability 1, the value returned by
\* solve_wait_and_see_problem equals the objective value of the stochastic
\* program.
C6_SingleScenario ==
    (/\ Len(scenarios) = 1
     /\ scenarios[1].probability = Denom
     /\ IsDict(sp_solution)
     /\ IsNum(ws_solution))
        => ws_solution.v = sp_solution.objective_value

\* A one-scenario run with probability 1 whose wait-and-see value is positive.
C6_Witness ==
    /\ Len(scenarios) = 1
    /\ scenarios[1].probability = Denom
    /\ IsDict(sp_solution)
    /\ IsNum(ws_solution)
    /\ ws_solution.v > 0

\* C7 (as claimed): on data whose probabilities do not sum to 1 no solve is
\* ever started.
C7_BadDataRejected ==
    ProbabilitySum(scenarios) # Denom => solves = <<>>

\* C8 (as claimed): a solve that ended in a non-optimal status returned a
\* value that no other non-optimal status would have produced.
C8_StatusDistinct ==
    \A i \in 1..Len(solves) : \A st \in NonOptimalStatuses :
        (solves[i].status \in NonOptimalStatuses /\ st # solves[i].status)
            => ExtractResult(st, solves[i].result) # solves[i].result

AllDemandsZero ==
    \A s \in 1..Len(scenarios) :
        /\ scenarios[s].economy_class = 0
        /\ scenarios[s].business_class = 0
        /\ scenarios[s].first_class = 0

\* C9: in evaluate_ev_in_sp with a fixed non-negative allocation, when every
\* demand is zero every y of every feasible solution is zero and the optimal
\* objective value is zero.
C9_ZeroDemand ==
    (pc = "evaluated" /\ AllDemandsZero)
        => /\ \A ys \in EEVFeasible(scenarios, ev_solution) :
                 \A s \in 1..Len(scenarios) :
                     ys[s] = [y_e |-> 0, y_b |-> 0, y_f |-> 0]
           /\ IsDict(eev_solution) => eev_solution.objective_value = 0

\* The evaluation returned optimal on zero demands of several scenarios with a
\* positive allocation in every class.
C9_Witness ==
    /\ pc = "evaluated"
    /\ AllDemandsZero
    /\ Len(scenarios) >= 2
    /\ ev_solution.x_e > 0 /\ ev_solution.x_b > 0 /\ ev_solution.x_f > 0
    /\ IsDict(eev_solution)

\* C10 (as claimed, here on well-formed data): a run whose solves all
\* returned optimal prints the allocation, the expected profit, VSS and EVPI;
\* the wait-and-see failure message is printed only if some scenario's
\* wait-and-see solve was non-optimal.
C10_ReportWhenAllOptimal ==
    WellFormed =>
    /\ (/\ pc = "done"
        /\ Len(solves) = 3 + Len(scenarios)
        /\ \A i \in 1..Len(solves) : solves[i].status = "OPTIMAL")
          => /\ HasLine("Economy seats")
             /\ HasLine("Business seats")
             /\ HasLine("First-class seats")
             /\ HasLine("Expected Profit")
             /\ HasLine("VSS")
             /\ HasLine("EVPI")
    /\ HasLine("Could not solve Wait-and-See Problem")
          => \E i \in 1..Len(solves) :
                solves[i].problem = "WS" /\ solves[i].status # "OPTIMAL"

====
